---- MODULE Spec2Model ----
(***************************************************************************)
(* Model of the fetch / cache / filter pipeline of super-fpl:              *)
(*   src/api.py, src/superfpl/api.py   Api  (the fetch orchestrator)       *)
(*   src/db.py                         Db   (the day-partitioned store)    *)
(*   src/utils.py                      Utils (the metric enricher)         *)
(***************************************************************************)
EXTENDS Integers, Sequences, FiniteSets, TLC

(***************************************************************************)
(* Python values.                                                          *)
(***************************************************************************)
\* what a call hands back: a list, False, None, or (raised) an exception
PyList(items) == [tag |-> "list", items |-> items]
False == [tag |-> "False", items |-> <<>>]
None == [tag |-> "None", items |-> <<>>]
Raised(exception) == [tag |-> exception, items |-> <<>>]

\* an optional argument or key: NoArg where Python has None (or no key),
\* Given(x) where it has the value x
NoArg == <<>>
Given(x) == <<x>>
ValueOf(a) == a[1]

(***************************************************************************)
(* IEEE-754 binary64 arithmetic, as CPython's float does it.               *)
(* A non-negative double below 2^11 is held exactly as a fixed-point       *)
(* number in units of 2^-60, split in three limbs <<h, m, l>> of base 2^20 *)
(* (value = (h*B*B + m*B + l) / 2^60); only h may exceed the base.         *)
(* Every result is rounded to 53 significant bits, ties to even.           *)
(***************************************************************************)
LimbBits == 20
MantissaBits == 53
B == 2^LimbBits

\* the base-64 digits of the 60 fraction bits

Norm(h, m, l) ==
    LET m2 == m + (l \div B)
    IN  <<h + (m2 \div B), m2 % B, l % B>>

RECURSIVE BitLength(_)
BitLength(n) == IF n = 0 THEN 0 ELSE 1 + BitLength(n \div 2)

\* bits of the value that do not fit the 53-bit mantissa (all of them lie in l)
DropBits(v) == (2 * LimbBits + BitLength(v[1])) - MantissaBits

\* value rounded to the mantissa, ties to even; sticky says that value stands
\* for a number slightly above it.  (Here and below an operand that is read
\* more than once is first bound to its value, x \in {operand}.)
RoundNearestEven(value, sticky) ==
    CHOOSE rounded \in
        { IF k <= 0 THEN v
          ELSE CHOOSE up \in
                   { IF \/ r > p \div 2
                        \/ r = p \div 2 /\ sticky
                        \/ r = p \div 2 /\ ~sticky /\ ((v[3] \div p) % 2) = 1
                     THEN Norm(v[1], v[2], (v[3] - r) + p)
                     ELSE Norm(v[1], v[2], v[3] - r) :
                         p \in {2^k}, r \in {v[3] % (2^k)} } : TRUE :
              v \in {value}, k \in {DropBits(value)} } : TRUE

\* float + float
FAdd(a, b) == RoundNearestEven(Norm(a[1] + b[1], a[2] + b[2], a[3] + b[3]), FALSE)

\* a <= b on floats
FLe(a, b) ==
    \/ a[1] < b[1]
    \/ a[1] = b[1] /\ a[2] < b[2]
    \/ a[1] = b[1] /\ a[2] = b[2] /\ a[3] <= b[3]

FMin(a, b) == IF FLe(a, b) THEN a ELSE b
FMax(a, b) == IF FLe(a, b) THEN b ELSE a

\* the limbs of v / n for an int 0 < n < 2^11, cut off after 60 fraction bits,
\* by long division over the limbs; sticky tells whether anything was cut off
DivideByInt(value, n) ==
    CHOOSE d \in
        { [q |-> <<v[1] \div n, n2 \div n, n3 \div n>>, sticky |-> (n3 % n) # 0] :
              v \in {value},
              n2 \in {(value[1] % n) * B + value[2]},
              n3 \in {((((value[1] % n) * B + value[2]) % n) * B) + value[3]} } : TRUE

\* float / int (a correctly rounded quotient when it is 0 or at least 2^-7,
\* which the 60 fraction bits kept here can hold)
FDivInt(v, n) ==
    CHOOSE q \in {RoundNearestEven(d.q, d.sticky) : d \in {DivideByInt(v, n)}} : TRUE

\* float / 10
FDiv10(v) == FDivInt(v, 10)

\* float(n) of a small non-negative integer
FromInt(n) == <<n * B, 0, 0>>

\* float * int: the exact product, rounded
FMulInt(value, n) ==
    CHOOSE product \in
        {RoundNearestEven(Norm(n * v[1], n * v[2], n * v[3]), FALSE) : v \in {value}} : TRUE

\* k * v, exactly
Times(k, v) == Norm(k * v[1], k * v[2], k * v[3])

\* a - b, exactly (b <= a)
Minus(a, b) == Norm(a[1] - b[1], a[2] - b[2], a[3] - b[3])

\* floor(a / b) for floats, b # 0: the quotient of the leading limbs, which
\* falls short by 1 at most, put right by comparison
DivideFloor(a, b) ==
    LET guess == a[1] \div (b[1] + 1)
    IN  IF FLe(Times(guess + 1, b), a) THEN guess + 1 ELSE guess

\* the fraction digits of a / b by long division in base 64: r < b is the
\* remainder so far, q the quotient so far, n the digits still to produce
RECURSIVE DivideDigits(_, _, _, _)
DivideDigits(r, b, q, n) ==
    IF n = 0 THEN [q |-> q, sticky |-> r # <<0, 0, 0>>]
    ELSE LET r64   == Times(64, r)
             digit == DivideFloor(r64, b)
         IN  DivideDigits(Minus(r64, Times(digit, b)), b,
                          Norm(64 * q[1], 64 * q[2], 64 * q[3] + digit), n - 1)

\* the quotient of two operands already evaluated (a correctly rounded
\* quotient when it is 0 or at least 2^-7, which the 60 fraction bits kept
\* here can hold)
Quotient(a, b) ==
    LET whole == DivideFloor(a, b)
        \* the 3 * LimbBits fraction bits, six to a digit
        d     == DivideDigits(Minus(a, Times(whole, b)), b, <<0, 0, whole>>,
                              (3 * LimbBits) \div 6)
    IN  RoundNearestEven(d.q, d.sticky)

\* float / float, b # 0: both operands are evaluated, then divided
FDiv(a, b) == CHOOSE q \in {Quotient(x, y) : x \in {a}, y \in {b}} : TRUE

\* the float nearest to t / 10: int / 10, float("x.y"), and the float of a
\* decimal with one fractional digit
Tenths(t) == FDiv10(FromInt(t))

\* w is a number of units with its fraction: the units t0 = whole + w[1] \div B
\* rounded on the fraction, ties to even
RoundUnits(whole, w) ==
    CHOOSE units \in
        { IF \/ fh > B \div 2
             \/ fh = B \div 2 /\ (w[2] > 0 \/ w[3] > 0)
             \/ fh = B \div 2 /\ w[2] = 0 /\ w[3] = 0 /\ t0 % 2 = 1
          THEN t0 + 1 ELSE t0 :
              t0 \in {whole + (w[1] \div B)}, fh \in {w[1] % B} } : TRUE

\* round(x, 1), as the number of tenths of the result (round-half-even on the
\* exact binary value, as CPython's float.__round__ does)
RoundTenths(value) ==
    CHOOSE t \in
        {RoundUnits(0, w) : w \in {Norm(10 * value[1], 10 * value[2], 10 * value[3])}} : TRUE

Round1(v) == Tenths(RoundTenths(v))

\* round(x, 2), as the number of hundredths of the result: those of the
\* whole part, and the rounded hundredths of the fraction
RoundHundredths(value) ==
    CHOOSE h \in
        { RoundUnits(100 * (v[1] \div B),
                     Norm(100 * (v[1] % B), 100 * v[2], 100 * v[3])) : v \in {value} } : TRUE

\* the float nearest to h / 100: the whole part, and the digits of the rest
Hundredths(hundredths) ==
    CHOOSE v \in
        { RoundNearestEven(<<d.q[1] + (h \div 100) * B, d.q[2], d.q[3]>>, d.sticky) :
              h \in {hundredths}, d \in {DivideByInt(FromInt(hundredths % 100), 100)} } : TRUE

Round2(v) == Hundredths(RoundHundredths(v))

\* the literal 0.1
PointOne == Tenths(1)


(***************************************************************************)
(* The upstream API (a collaborator): what one HTTP GET can produce.       *)
(***************************************************************************)
\* a decimal string of the JSON body: Decimal(123) stands for "12.3"
Decimal(t) == [tenths |-> t]

\* one element of bootstrap-static's "elements"
RawPlayer(id, names, cost, mins, et, own, team) ==
    [id |-> id, first_name |-> names[1], second_name |-> names[2],
     now_cost |-> cost, minutes |-> mins, element_type |-> et,
     selected_by_percent |-> own, goals_scored |-> 2, assists |-> 1,
     total_points |-> 9, team_code |-> team, bps |-> 18, clean_sheets |-> 2,
     goals_conceded |-> 3, saves |-> 4, creativity |-> Decimal(123),
     threat |-> Decimal(70), influence |-> Decimal(305)]

Alisson  == RawPlayer(1, <<"Alisson", "Becker">>, 45, 90, 1, 5, 14)
AlissonB == RawPlayer(1, <<"Alisson", "Becker">>, 50, 120, 1, 60, 14)
Kane     == RawPlayer(2, <<"Harry", "Kane">>, 47, 0, 4, 50, 6)
Unknown  == RawPlayer(2, <<"New", "Manager">>, 60, 90, 5, 5, 6)
Free     == RawPlayer(2, <<"Free", "Agent">>, 0, 90, 3, 5, 6)

Salah == RawPlayer(3, <<"Mohamed", "Salah">>, 50, 89, 3, 51, 14)
Firmino == RawPlayer(4, <<"Roberto", "Firmino">>, 50, 90, 4, 50, 14)
VanDijk == RawPlayer(5, <<"Virgil", "van Dijk">>, 100, 90, 2, 50, 14)
Benched == RawPlayer(6, <<"Third", "Keeper">>, 40, 0, 1, 1, 6)

\* the prices (in tenths) of the players a value range is asked over
RangeCosts == (35..46) \cup {90}
RangePlayer(id, cost) == RawPlayer(id, <<"Player", ToString(id)>>, cost, 90, id, 5, 14)

\* every element upstream answers with in this model
UpstreamPlayers ==
    {Alisson, AlissonB, Kane, Unknown, Free, Salah, Firmino, VanDijk, Benched}
    \cup {RangePlayer(id, cost) : id \in 1..3, cost \in RangeCosts}

\* the "elements" arrays the model lets upstream answer with
ElementLists ==
    { <<>>, <<Alisson, Kane>>, <<Alisson, Unknown>>, <<Alisson, Free>> }

RawTeam(id, code) == [id |-> id, code |-> code]
TeamLists == { <<RawTeam(1, 14), RawTeam(2, 6)>> }

RawFixture(id, h, a) == [id |-> id, team_h |-> h, team_a |-> a]
FixtureLists == { <<>>, <<RawFixture(1, 1, 2), RawFixture(2, 2, 1)>> }

\* urlopen(...) raises (URLError, HTTPError, socket timeout), or json.loads
\* yields the decoded body
NoBody == [elements |-> NoArg, teams |-> NoArg]

\* GET /bootstrap-static/: an object with "elements" and "teams", or one
\* without these keys
BootstrapResponses ==
    {[kind |-> "error", data |-> NoBody], [kind |-> "object", data |-> NoBody]}
    \cup {[kind |-> "object", data |-> [elements |-> Given(e), teams |-> Given(t)]] :
              e \in ElementLists, t \in TeamLists}

\* the same, as far as get_teams reads it
TeamsResponses ==
    {[kind |-> "error", data |-> NoBody], [kind |-> "object", data |-> NoBody]}
    \cup {[kind |-> "object", data |-> [elements |-> Given(<<>>), teams |-> Given(t)]] :
              t \in TeamLists}

\* GET /fixtures/: an array of fixtures, or an object such as
\* {"detail": "Not found."} (its keys are not modelled)
FixturesResponses ==
    {[kind |-> "error", data |-> <<>>], [kind |-> "object", data |-> <<>>]}
    \cup {[kind |-> "array", data |-> f] : f \in FixtureLists}

(***************************************************************************)
(* Utils (src/utils.py)                                                    *)
(***************************************************************************)
POSITION_LOOKUP == (1 :> "GKP") @@ (2 :> "DEF") @@ (3 :> "MID") @@ (4 :> "FWD")

\* float(s) of a decimal string: the double nearest to the decimal
float(s) == Tenths(s.tenths)

\* calc_per_min with the guard on minutes answering 1
calc_per_min_one_for_zero(metric, minutes) ==
    IF minutes = 0 THEN 1
    ELSE Round2(FDivInt(metric, minutes))

\* metric is the float the division works on (float(n) of an int metric is
\* exact); the int 0 comes back for zero minutes, a float otherwise
calc_per_min(metric, minutes) ==
    IF minutes = 0 THEN 0
    ELSE Round2(FDivInt(metric, minutes))

\* price is the float now_cost; the caller has seen that it is not 0.0
\* (where Python raises ZeroDivisionError)
calc_per_mil(metric, price) == Round2(FDiv(metric, price))

calc_per_90(metric, minutes) ==
    IF minutes = 0 THEN 0
    ELSE Round2(FMulInt(FDivInt(metric, minutes), 90))

\* prepare_analysis_fields: the exception it raises ("" when none) and the
\* record after its in-place updates (the fields set before the exception)
prepare_analysis_fields(player) ==
    LET mins == player.minutes
        set == [bps_per_min         |-> calc_per_min(FromInt(player.bps), mins),
                clean_sheets_per_90 |-> calc_per_90(FromInt(player.clean_sheets), mins),
                goals_conc_per_90   |-> calc_per_90(FromInt(player.goals_conceded), mins),
                goals_scored_per_90 |-> calc_per_90(FromInt(player.goals_scored), mins),
                assists_per_90      |-> calc_per_90(FromInt(player.assists), mins),
                creativity_per_min  |-> calc_per_min(float(player.creativity), mins),
                threat_per_min      |-> calc_per_min(float(player.threat), mins),
                influence_per_min   |-> calc_per_min(float(player.influence), mins),
                points_per_min      |-> calc_per_min(FromInt(player.total_points), mins),
                points_per_90       |-> calc_per_90(FromInt(player.total_points), mins)]
    IN  IF player.now_cost = FromInt(0)
        THEN [err |-> "ZeroDivisionError", doc |-> set @@ player]
        ELSE [err |-> "",
              doc |-> [points_per_mil |-> calc_per_mil(FromInt(player.total_points),
                                                       player.now_cost),
                       saves_per_90   |-> calc_per_90(FromInt(player.saves), mins)]
                      @@ set @@ player]

\* format_player: the exception it raises ("" when none) and the record after
\* its in-place updates.  now_cost is the int of the upstream body, or the
\* float of a record format_player has been through before (one that has a
\* name).
format_player(player) ==
    LET first == [name |-> player.first_name \o " " \o player.second_name,
                  now_cost |-> FDiv10(IF "name" \in DOMAIN player
                                       THEN player.now_cost
                                       ELSE FromInt(player.now_cost)),
                  goal_involvements |-> player.goals_scored + player.assists]
                 @@ player
    IN  IF player.element_type \notin DOMAIN POSITION_LOOKUP
        THEN [err |-> "KeyError", doc |-> first]
        ELSE prepare_analysis_fields(
                 [position |-> POSITION_LOOKUP[player.element_type]] @@ first)

\* format_player on each upstream element, worked out once
Formatted == [player \in UpstreamPlayers |-> format_player(player)]

(***************************************************************************)
(* Db (src/db.py): a collection is the sequence of its documents in        *)
(* natural order; today is the day number date.today() stands at.          *)
(***************************************************************************)
\* date.today().strftime("%d%m%Y") on the consecutive calendar days the model
\* numbers 1, 2, ...
Calendar == <<"30112019", "01122019", "02122019", "03122019", "04122019">>

\* Db.get_date
get_date(today) == Calendar[today]

\* Db.generate_uid: str(id) + '_' + get_date()
generate_uid(id, today) == ToString(id) \o "_" \o get_date(today)

\* a store whose save always inserts
SaveInsertOnly(coll, doc) == Append(coll, doc)

\* collection.save(doc): replace the document with this _id, else insert
save(coll, doc) ==
    IF \E i \in DOMAIN coll : coll[i]._id = doc._id
    THEN [i \in DOMAIN coll |-> IF coll[i]._id = doc._id THEN doc ELSE coll[i]]
    ELSE Append(coll, doc)

\* the two assignments of one turn of an insert loop:
\* doc['_id'] = uid; doc['date_generated'] = date
Stamped(doc, uid, date) == [_id |-> uid, date_generated |-> date] @@ doc

\* Db.insert_players_to_db / insert_teams_to_db / insert_fixtures_to_db, run
\* within one day
RECURSIVE insert_to_db(_, _, _)
insert_to_db(coll, docs, today) ==
    IF docs = <<>> THEN coll
    ELSE insert_to_db(save(coll, Stamped(Head(docs), generate_uid(Head(docs).id, today),
                                         get_date(today))),
                      Tail(docs), today)

FindToday(coll, today) == SelectSeq(coll, LAMBDA d : d.date_generated = get_date(today))

MissSignal(docs) == IF Len(docs) = 0 THEN False ELSE PyList(docs)

\* a read of today's fixtures that never finds any
fixtures_never_found(coll, today) == False

get_teams_from_db(coll, today) == MissSignal(FindToday(coll, today))

get_fixtures_from_db(coll, today) == MissSignal(FindToday(coll, today))

\* The arguments of get_players / get_players_from_db. A price is given in
\* tenths: t stands for the decimal t/10 (float("4.5") is Tenths(45)).
NoFilter ==
    [min_price |-> NoArg, max_price |-> NoArg, min_minutes_played |-> NoArg,
     positions |-> NoArg, max_ownership |-> NoArg]

upper(s) ==
    CASE s \in {"gkp", "GKP", "Gkp"} -> "GKP"
      [] s \in {"def", "DEF"} -> "DEF"
      [] s \in {"mid", "MID"} -> "MID"
      [] s \in {"fwd", "FWD"} -> "FWD"
      [] OTHER -> s

\* the store's comparison operators on numbers
MongoGt(x, bound) == ~FLe(x, bound)

MongoGte(x, bound) == FLe(bound, x)

MongoLte(x, bound) == FLe(x, bound)

\* the search_query get_players_from_db builds (a key it does not set is None)
search_query(f, today) ==
    [date_generated |-> get_date(today),
     now_cost_gte |-> IF f.min_price # NoArg
                      THEN Given(Tenths(ValueOf(f.min_price))) ELSE NoArg,
     now_cost_lte |-> IF f.max_price # NoArg
                      THEN Given(Tenths(ValueOf(f.max_price))) ELSE NoArg,
     minutes_gte |-> IF f.min_minutes_played # NoArg
                     THEN Given(ValueOf(f.min_minutes_played)) ELSE NoArg,
     or_position |-> IF f.positions # NoArg /\ Len(ValueOf(f.positions)) > 0
                     THEN Given([i \in DOMAIN ValueOf(f.positions) |->
                                     upper(ValueOf(f.positions)[i])])
                     ELSE NoArg,
     selected_lte |-> IF f.max_ownership # NoArg
                      THEN Given(FromInt(ValueOf(f.max_ownership))) ELSE NoArg]

\* whether a document matches a query (the store's find)
Matches(doc, q) ==
    /\ doc.date_generated = q.date_generated
    /\ q.now_cost_gte # NoArg => MongoGte(doc.now_cost, ValueOf(q.now_cost_gte))
    /\ q.now_cost_lte # NoArg => MongoLte(doc.now_cost, ValueOf(q.now_cost_lte))
    /\ q.minutes_gte # NoArg => doc.minutes >= ValueOf(q.minutes_gte)
    /\ q.or_position # NoArg =>
           \E i \in DOMAIN ValueOf(q.or_position) : doc.position = ValueOf(q.or_position)[i]
    /\ q.selected_lte # NoArg =>
           MongoLte(FromInt(doc.selected_by_percent), ValueOf(q.selected_lte))

get_players_from_db(coll, today, f) ==
    LET query == search_query(f, today)
    IN  MissSignal(SelectSeq(coll, LAMBDA d : Matches(d, query)))

\* Db.get_min_and_max_value: the $group over today's players; list(cursor)[0]
\* of an empty cursor raises IndexError
RECURSIVE GroupMin(_, _)
GroupMin(docs, acc) ==
    IF docs = <<>> THEN acc
    ELSE GroupMin(Tail(docs), FMin(acc, Head(docs).now_cost))

RECURSIVE GroupMax(_, _)
GroupMax(docs, acc) ==
    IF docs = <<>> THEN acc
    ELSE GroupMax(Tail(docs), FMax(acc, Head(docs).now_cost))

\* an aggregation that answers an empty partition with a zero minimum and maximum
min_and_max_or_zero(coll, today) ==
    LET docs == FindToday(coll, today)
    IN  [err |-> "",
         min_value |-> IF docs = <<>> THEN FromInt(0) ELSE GroupMin(Tail(docs), Head(docs).now_cost),
         max_value |-> IF docs = <<>> THEN FromInt(0) ELSE GroupMax(Tail(docs), Head(docs).now_cost)]

get_min_and_max_value(coll, today) ==
    LET docs == FindToday(coll, today)
    IN  IF docs = <<>>
        THEN [err |-> "IndexError", min_value |-> FromInt(0), max_value |-> FromInt(0)]
        ELSE [err |-> "",
              min_value |-> GroupMin(Tail(docs), Head(docs).now_cost),
              max_value |-> GroupMax(Tail(docs), Head(docs).now_cost)]

(***************************************************************************)
(* Api (src/api.py, src/superfpl/api.py): what one call does to its        *)
(* collection and what it hands back.  A result is                         *)
(*   coll: the collection afterwards, fetches: the HTTP GETs issued,       *)
(*   writes: the documents saved, out: "return" or "raise", ret: the value *)
(*   returned or the exception raised.                                     *)
(***************************************************************************)
Result(coll, fetches, writes, out, ret) ==
    [coll |-> coll, fetches |-> fetches, writes |-> writes, out |-> out, ret |-> ret]

\* the format loop writing on: the elements before the first exception come
\* out, and no exception
RECURSIVE FormatUntilFailure(_)
FormatUntilFailure(elements) ==
    IF elements = <<>> THEN [err |-> "", docs |-> <<>>]
    ELSE LET p == Formatted[Head(elements)]
         IN  IF p.err # "" THEN [err |-> "", docs |-> <<>>]
             ELSE [err |-> "",
                   docs |-> <<p.doc>> \o FormatUntilFailure(Tail(elements)).docs]

\* the loop "for player in data['elements']: player = format_player(player)":
\* the elements after it, or the first exception
RECURSIVE FormatAll(_)
FormatAll(elements) ==
    IF elements = <<>> THEN [err |-> "", docs |-> <<>>]
    ELSE LET p == Formatted[Head(elements)]
             rest == FormatAll(Tail(elements))
         IN  IF p.err # "" THEN [err |-> p.err, docs |-> <<>>]
             ELSE IF rest.err # "" THEN rest
             ELSE [err |-> "", docs |-> <<p.doc>> \o rest.docs]

\* the body of "with urllib.request.urlopen(...)" in get_players; returned
\* is TRUE where the code has "return players" after the re-read
FetchPlayers(coll, today, f, resp, returned) ==
    IF resp.kind = "error" THEN Result(coll, 1, 0, "raise", Raised("URLError"))
    ELSE IF resp.data.elements = NoArg THEN Result(coll, 1, 0, "return", False)
    ELSE LET formatted == FormatAll(ValueOf(resp.data.elements))
         IN  IF formatted.err # "" THEN Result(coll, 1, 0, "raise", Raised(formatted.err))
             ELSE LET coll2 == insert_to_db(coll, formatted.docs, today)
                      players == get_players_from_db(coll2, today, f)
                  IN  Result(coll2, 1, Len(formatted.docs), "return",
                             IF returned THEN players ELSE None)

\* src/api.py Api.get_players
get_players(coll, today, f, resp) ==
    LET players == get_players_from_db(coll, today, f)
    IN  IF players # False THEN Result(coll, 0, 0, "return", players)
        ELSE FetchPlayers(coll, today, f, resp, FALSE)

\* src/superfpl/api.py Api.get_players: "a fresh request every time"
superfpl_get_players(coll, today, f, resp) ==
    FetchPlayers(coll, today, f, resp, TRUE)

\* a get_teams that stores a placeholder for a body without the 'teams' key
get_teams_caching_failure(coll, today, resp) ==
    LET teams == get_teams_from_db(coll, today)
    IN  IF teams # False THEN Result(coll, 0, 0, "return", teams)
        ELSE IF resp.kind = "error" THEN Result(coll, 1, 0, "raise", Raised("URLError"))
        ELSE LET body == IF resp.data.teams = NoArg THEN <<RawTeam(0, 0)>>
                         ELSE ValueOf(resp.data.teams)
                 coll2 == insert_to_db(coll, body, today)
             IN  Result(coll2, 1, Len(body), "return", get_teams_from_db(coll2, today))

\* Api.get_teams (the same in both files)
get_teams(coll, today, resp) ==
    LET teams == get_teams_from_db(coll, today)
    IN  IF teams # False THEN Result(coll, 0, 0, "return", teams)
        ELSE IF resp.kind = "error" THEN Result(coll, 1, 0, "raise", Raised("URLError"))
        ELSE IF resp.data.teams = NoArg THEN Result(coll, 1, 0, "return", False)
        ELSE LET coll2 == insert_to_db(coll, ValueOf(resp.data.teams), today)
             IN  Result(coll2, 1, Len(ValueOf(resp.data.teams)), "return",
                        get_teams_from_db(coll2, today))

\* Api.get_fixtures (the same in both files): no check of the body's shape;
\* iterating an object yields its keys, and key['id'] raises TypeError
get_fixtures(coll, today, resp) ==
    LET fixtures == get_fixtures_from_db(coll, today)
    IN  IF fixtures # False THEN Result(coll, 0, 0, "return", fixtures)
        ELSE IF resp.kind = "error" THEN Result(coll, 1, 0, "raise", Raised("URLError"))
        ELSE IF resp.kind = "object" THEN Result(coll, 1, 0, "raise", Raised("TypeError"))
        ELSE LET coll2 == insert_to_db(coll, resp.data, today)
             IN  Result(coll2, 1, Len(resp.data), "return",
                        get_fixtures_from_db(coll2, today))

\* Api.get_value_range: the while loop, i a float
RECURSIVE ValueRangeLoop(_, _, _)
ValueRangeLoop(i, max_value, value_range) ==
    IF FLe(i, max_value)
    THEN ValueRangeLoop(FAdd(i, PointOne), max_value, Append(value_range, Round1(i)))
    ELSE value_range

get_value_range(coll, today) ==
    LET min_and_max == get_min_and_max_value(coll, today)
    IN  IF min_and_max.err # "" THEN Result(coll, 0, 0, "raise", Raised(min_and_max.err))
        ELSE Result(coll, 0, 0, "return",
                    PyList(ValueRangeLoop(min_and_max.min_value, min_and_max.max_value, <<>>)))

(***************************************************************************)
(* The running system, requests served one after the other: Spec over     *)
(* src/api.py, SpecSuperfpl over src/superfpl/api.py.                      *)
(***************************************************************************)
\* the calendar days the model runs through
MaxDay == 2

VARIABLES
    day,          \* the day date.today() stands at
    players,      \* db.fpl.players
    teams,        \* db.fpl.teams
    fixtures,     \* db.fpl.fixtures
    last,         \* the call that completed last: its arguments, what it found and did
    reqs,         \* SpecConc: the requests in progress, one per worker
    budget,       \* SpecConc: the requests still to come
    put,          \* SpecConc: per collection, the document saved last under each _id
    obj           \* the Python object in hand where one function is run on its own

vars == <<day, players, teams, fixtures, last, reqs, budget, put, obj>>

\* no object in hand
NoObject == <<>>

\* the filters requests come with: none, and a price floor of 10.0 that no
\* player upstream lists reaches
Expensive == [NoFilter EXCEPT !.min_price = Given(100)]
Filters == {NoFilter, Expensive}

CollectionOf(op) ==
    CASE op \in {"get_players", "superfpl_get_players"} -> "players"
      [] op = "get_teams" -> "teams"
      [] op = "get_fixtures" -> "fixtures"
      [] OTHER -> "none"

\* how the upstream request of a call went: "none" (no request), "error"
\* (urlopen raised), "malformed" (a body without the expected key, or an
\* object where an array is expected), "ok"
Upstream(op, resp, fetches) ==
    IF fetches = 0 THEN "none"
    ELSE IF resp.kind = "error" THEN "error"
    ELSE IF \/ CollectionOf(op) = "players" /\ resp.data.elements = NoArg
            \/ op = "get_teams" /\ resp.data.teams = NoArg
            \/ op = "get_fixtures" /\ resp.kind = "object"
         THEN "malformed"
         ELSE "ok"

\* the number of documents in the body fetched
Fetchable(op, resp) ==
    IF resp.kind \notin {"object", "array"} THEN 0
    ELSE IF op = "get_fixtures" THEN Len(resp.data)
    ELSE IF CollectionOf(op) = "players"
         THEN (IF resp.data.elements = NoArg THEN 0 ELSE Len(ValueOf(resp.data.elements)))
    ELSE IF op = "get_teams"
         THEN (IF resp.data.teams = NoArg THEN 0 ELSE Len(ValueOf(resp.data.teams)))
    ELSE 0

NoPrior == [what |-> "other", out |-> "return", ret |-> None]

\* the call before this one, when it was the same request on the same day and
\* either failed upstream ("failure"), raised on a good body ("raised") or
\* filled an empty partition ("populate"); "midnight" when the day changed just before this call
Prior(op, args) ==
    IF last.op = "midnight" THEN [NoPrior EXCEPT !.what = "midnight"]
    ELSE IF last.op = op /\ last.args = args
    THEN IF last.upstream \in {"error", "malformed"}
         THEN [NoPrior EXCEPT !.what = "failure"]
         ELSE IF last.upstream = "ok" /\ last.out = "raise"
         THEN [NoPrior EXCEPT !.what = "raised"]
         ELSE IF last.pre = 0 /\ last.upstream = "ok" /\ last.writes > 0
         THEN [what |-> "populate", out |-> last.out, ret |-> last.ret]
         ELSE NoPrior
    ELSE NoPrior

\* the record of a call: pre is the number of today's documents it found in
\* its collection, n the number of documents in the body it fetched, body the
\* response it got
Call(op, args, coll, resp, r) ==
    [op |-> op, args |-> args,
     pre |-> Len(FindToday(coll, day)),
     prior |-> Prior(op, args),
     upstream |-> Upstream(op, resp, r.fetches),
     n |-> IF r.fetches = 0 THEN 0 ELSE Fetchable(op, resp),
     body |-> IF r.fetches = 0 THEN NoArg ELSE Given(resp),
     fetches |-> r.fetches, writes |-> r.writes, out |-> r.out, ret |-> r.ret]

NoCall ==
    [op |-> "none", args |-> NoFilter, pre |-> 0, prior |-> NoPrior, upstream |-> "none",
     n |-> 0, body |-> NoArg, fetches |-> 0, writes |-> 0, out |-> "return", ret |-> None]

\* the workers serving requests at the same time
Workers == {"w1", "w2"}

Idle == [pc |-> "idle", c |-> "none", docs |-> <<>>, uid |-> "", date |-> ""]

Collections == {"players", "teams", "fixtures"}

Init ==
    /\ day = 1
    /\ players = <<>>
    /\ teams = <<>>
    /\ fixtures = <<>>
    /\ last = NoCall
    /\ reqs = [w \in Workers |-> Idle]
    /\ budget = 0
    /\ put = [c \in Collections |-> {}]
    /\ obj = NoObject

GetPlayers ==
    \E f \in Filters, resp \in BootstrapResponses :
        LET r == get_players(players, day, f, resp)
        IN  /\ players' = r.coll
            /\ last' = Call("get_players", f, players, resp, r)
            /\ UNCHANGED <<day, teams, fixtures, reqs, budget, put, obj>>

SuperfplGetPlayers ==
    \E f \in Filters, resp \in BootstrapResponses :
        LET r == superfpl_get_players(players, day, f, resp)
        IN  /\ players' = r.coll
            /\ last' = Call("superfpl_get_players", f, players, resp, r)
            /\ UNCHANGED <<day, teams, fixtures, reqs, budget, put, obj>>

GetTeams ==
    \E resp \in TeamsResponses :
        LET r == get_teams(teams, day, resp)
        IN  /\ teams' = r.coll
            /\ last' = Call("get_teams", NoFilter, teams, resp, r)
            /\ UNCHANGED <<day, players, fixtures, reqs, budget, put, obj>>

GetFixtures ==
    \E resp \in FixturesResponses :
        LET r == get_fixtures(fixtures, day, resp)
        IN  /\ fixtures' = r.coll
            /\ last' = Call("get_fixtures", NoFilter, fixtures, resp, r)
            /\ UNCHANGED <<day, players, teams, reqs, budget, put, obj>>

GetValueRange ==
    LET r == get_value_range(players, day)
    IN  /\ last' = Call("get_value_range", NoFilter, players, [kind |-> "none", data |-> <<>>], r)
        /\ UNCHANGED <<day, players, teams, fixtures, reqs, budget, put, obj>>

\* midnight passes
NextDay ==
    /\ day < MaxDay
    /\ day' = day + 1
    /\ last' = [NoCall EXCEPT !.op = "midnight"]
    /\ UNCHANGED <<players, teams, fixtures, reqs, budget, put, obj>>

\* the application of src/app.py over src/api.py
Next ==
    \/ GetPlayers
    \/ GetTeams
    \/ GetFixtures
    \/ GetValueRange
    \/ NextDay

Spec == Init /\ [][Next]_vars

\* the same over src/superfpl/api.py, whose get_players differs
NextSuperfpl ==
    \/ SuperfplGetPlayers
    \/ GetTeams
    \/ GetFixtures
    \/ GetValueRange
    \/ NextDay

SpecSuperfpl == Init /\ [][NextSuperfpl]_vars

(***************************************************************************)
(* Requests served at the same time (SpecConc): each worker runs           *)
(* get_players / get_teams / get_fixtures of src/api.py statement by       *)
(* statement; the store serves one find or save at a time; midnight may    *)
(* pass between any two statements.                                        *)
(***************************************************************************)
\* the requests of one run
MaxRequests == 2

Coll(c) ==
    CASE c = "players" -> players
      [] c = "teams" -> teams
      [] c = "fixtures" -> fixtures

SetColl(c, new) ==
    /\ players' = IF c = "players" THEN new ELSE players
    /\ teams' = IF c = "teams" THEN new ELSE teams
    /\ fixtures' = IF c = "fixtures" THEN new ELSE fixtures

\* what the body fetched for collection c holds to insert: the documents, or
\* nothing when the call ends before its insert loop
ConcElementLists == { <<Alisson, Kane>>, <<AlissonB>> }

ConcTeamLists == { <<RawTeam(1, 14)>> }

ConcFixtureLists == { <<RawFixture(1, 1, 2)>> }

Fetched(c) ==
    CASE c = "players" -> {FormatAll(e).docs : e \in ConcElementLists}
      [] c = "teams" -> ConcTeamLists
      [] c = "fixtures" -> ConcFixtureLists

InitConc ==
    /\ day = 1
    /\ players = <<>>
    /\ teams = <<>>
    /\ fixtures = <<>>
    /\ last = NoCall
    /\ reqs = [w \in Workers |-> Idle]
    /\ budget = MaxRequests
    /\ put = [c \in Collections |-> {}]
    /\ obj = NoObject

\* the first statement of get_*: the read of today's documents; a hit returns
ReqStart(w) ==
    /\ reqs[w].pc = "idle"
    /\ budget > 0
    /\ budget' = budget - 1
    /\ \E c \in Collections :
           reqs' = [reqs EXCEPT ![w] =
                       IF MissSignal(FindToday(Coll(c), day)) # False THEN Idle
                       ELSE [Idle EXCEPT !.pc = "fetch", !.c = c]]
    /\ UNCHANGED <<day, players, teams, fixtures, last, put, obj>>

\* urlopen and json.loads (and, for players, the format loop): the call ends
\* here on a failure, else the insert loop starts
ReqFetch(w) ==
    /\ reqs[w].pc = "fetch"
    /\ \/ reqs' = [reqs EXCEPT ![w] = Idle]
       \/ \E docs \in Fetched(reqs[w].c) :
              reqs' = [reqs EXCEPT ![w].pc = "uid", ![w].docs = docs]
    /\ UNCHANGED <<day, players, teams, fixtures, last, budget, put, obj>>

\* for doc in docs: doc['_id'] = self.generate_uid(doc['id'])
ReqUid(w) ==
    /\ reqs[w].pc = "uid"
    /\ reqs' = [reqs EXCEPT ![w] =
                    IF reqs[w].docs = <<>> THEN [@ EXCEPT !.pc = "reread"]
                    ELSE [@ EXCEPT !.pc = "date",
                                   !.uid = generate_uid(Head(reqs[w].docs).id, day)]]
    /\ UNCHANGED <<day, players, teams, fixtures, last, budget, put, obj>>

\* doc['date_generated'] = self.get_date()
ReqDate(w) ==
    /\ reqs[w].pc = "date"
    /\ reqs' = [reqs EXCEPT ![w].pc = "save", ![w].date = get_date(day)]
    /\ UNCHANGED <<day, players, teams, fixtures, last, budget, put, obj>>

\* self.db.<collection>.save(doc)
ReqSave(w) ==
    /\ reqs[w].pc = "save"
    /\ LET doc == Stamped(Head(reqs[w].docs), reqs[w].uid, reqs[w].date)
           c == reqs[w].c
       IN  /\ SetColl(c, save(Coll(c), doc))
           /\ put' = [put EXCEPT ![c] = {d \in @ : d._id # doc._id} \cup {doc}]
    /\ reqs' = [reqs EXCEPT ![w].pc = "uid", ![w].docs = Tail(reqs[w].docs)]
    /\ UNCHANGED <<day, last, budget, obj>>

\* the read after the insert loop, and the return
ReqReread(w) ==
    /\ reqs[w].pc = "reread"
    /\ reqs' = [reqs EXCEPT ![w] = Idle]
    /\ UNCHANGED <<day, players, teams, fixtures, last, budget, put, obj>>

Midnight ==
    /\ day < MaxDay
    /\ day' = day + 1
    /\ UNCHANGED <<players, teams, fixtures, last, reqs, budget, put, obj>>

NextConc ==
    \/ \E w \in Workers :
          \/ ReqStart(w)
          \/ ReqFetch(w)
          \/ ReqUid(w)
          \/ ReqDate(w)
          \/ ReqSave(w)
          \/ ReqReread(w)
    \/ Midnight

SpecConc == InitConc /\ [][NextConc]_vars

(***************************************************************************)
(* Db.get_players_from_db on its own (SpecFilter): the stored players and  *)
(* the day are drawn at the start, and each step reads them through one    *)
(* filter.                                                                 *)
(***************************************************************************)

\* what was inserted the day before, and what today
StoredBefore == { <<>>, <<VanDijk, Alisson>> }
StoredToday == { <<>>, <<Alisson>>, <<Alisson, Kane>>, <<Alisson, Kane, Salah, Firmino, VanDijk>> }

\* the arguments of get_players_from_db
FilterSpecs ==
    [min_price : {NoArg, Given(45), Given(50)},
     max_price : {NoArg, Given(47), Given(50)},
     min_minutes_played : {NoArg, Given(90)},
     positions : {NoArg, Given(<<>>), Given(<<"gkp", "fwd">>), Given(<<"Mid">>)},
     max_ownership : {NoArg, Given(50)}]

InitFilter ==
    /\ day = 2
    /\ \E before \in StoredBefore, today \in StoredToday :
           players = insert_to_db(insert_to_db(<<>>, FormatAll(before).docs, 1),
                                  FormatAll(today).docs, 2)
    /\ teams = <<>>
    /\ fixtures = <<>>
    /\ last = NoCall
    /\ reqs = [w \in Workers |-> Idle]
    /\ budget = 0
    /\ put = [c \in Collections |-> {}]
    /\ obj = NoObject

GetPlayersFromDb ==
    /\ \E f \in FilterSpecs :
           last' = [NoCall EXCEPT !.op = "get_players_from_db", !.args = f,
                                  !.pre = Len(FindToday(players, day)),
                                  !.ret = get_players_from_db(players, day, f)]
    /\ UNCHANGED <<day, players, teams, fixtures, reqs, budget, put, obj>>

NextFilter == GetPlayersFromDb

SpecFilter == InitFilter /\ [][NextFilter]_vars

(***************************************************************************)
(* Api.get_value_range on its own (SpecRange): today's players are drawn   *)
(* at the start with their costs, and each step computes the range.        *)
(***************************************************************************)
\* the now_cost values upstream gives (tenths of a million)

InitRange ==
    /\ day = 1
    /\ \E a \in RangeCosts, b \in RangeCosts :
           players = insert_to_db(<<>>,
                                  FormatAll(<<RangePlayer(1, a), RangePlayer(2, a),
                                              RangePlayer(3, b)>>).docs,
                                  1)
    /\ teams = <<>>
    /\ fixtures = <<>>
    /\ last = NoCall
    /\ reqs = [w \in Workers |-> Idle]
    /\ budget = 0
    /\ put = [c \in Collections |-> {}]
    /\ obj = NoObject

NextRange == GetValueRange

SpecRange == InitRange /\ [][NextRange]_vars

(***************************************************************************)
(* SpecEnrich: format_player run on its own, on the dict object obj that   *)
(* json.loads produced; the caller keeps the object and may pass it again. *)
(***************************************************************************)
\* the record of one format_player call: arg is the object as it was passed,
\* ret the object returned, again whether the object had been passed before,
\* and then earlier is what that call returned
FormatCall(arg, r, again, earlier) ==
    [op |-> "format_player", arg |-> arg, err |-> r.err, ret |-> r.doc,
     again |-> again, earlier |-> earlier]

InitEnrich ==
    /\ day = 1
    /\ players = <<>>
    /\ teams = <<>>
    /\ fixtures = <<>>
    /\ last = NoCall
    /\ reqs = [w \in Workers |-> Idle]
    /\ budget = 0
    /\ put = [c \in Collections |-> {}]
    /\ obj = NoObject

\* json.loads hands over a fresh element
Load ==
    /\ \E player \in UpstreamPlayers : obj' = player
    /\ last' = NoCall
    /\ UNCHANGED <<day, players, teams, fixtures, reqs, budget, put>>

\* format_player(obj): the updates are made on the object passed, which is
\* also the object returned (the model follows an object through two calls)
FormatPlayer ==
    /\ obj # NoObject
    /\ last.op = "format_player" => ~last.again
    /\ LET r == format_player(obj)
       IN  /\ obj' = r.doc
           /\ last' = IF last.op = "format_player"
                      THEN FormatCall(obj, r, TRUE, last.ret)
                      ELSE FormatCall(obj, r, FALSE, r.doc)
    /\ UNCHANGED <<day, players, teams, fixtures, reqs, budget, put>>

NextEnrich == Load \/ FormatPlayer

SpecEnrich == InitEnrich /\ [][NextEnrich]_vars

(***************************************************************************)
(* SpecForm: get_player_summary and get_player_form of src/superfpl/api.py *)
(* called on a store that holds today's documents.                         *)
(***************************************************************************)
MaxHistory == 3

\* one row of element-summary's "history"
HistoryRow(round, points) == [round |-> round, total_points |-> points]
HistoryRows == {HistoryRow(1, 6), HistoryRow(1, 0), HistoryRow(2, 2), HistoryRow(2, 6)}

RECURSIVE SeqsUpTo(_, _)
SeqsUpTo(S, n) ==
    IF n = 0 THEN {<<>>}
    ELSE SeqsUpTo(S, n - 1) \cup
         {Append(s, x) : s \in {t \in SeqsUpTo(S, n - 1) : Len(t) = n - 1}, x \in S}

\* GET /element-summary/{player_id}/: urlopen raises, or the decoded body is
\* an object with "history", or one without that key
SummaryResponses ==
    {[kind |-> "error", data |-> [history |-> NoArg]],
     [kind |-> "object", data |-> [history |-> NoArg]]}
    \cup {[kind |-> "object", data |-> [history |-> Given(h)]] : h \in SeqsUpTo(HistoryRows, MaxHistory)}

\* list.insert at the front of the rows of the same round
InsertBeforeEqual(sorted, row) ==
    LET before == SelectSeq(sorted, LAMBDA r : r.round < row.round)
        after  == SelectSeq(sorted, LAMBDA r : r.round >= row.round)
    IN  before \o <<row>> \o after

\* one step of sorted(): row goes behind every row whose key is not greater
InsertByRound(sorted, row) ==
    LET before == SelectSeq(sorted, LAMBDA r : r.round <= row.round)
        after  == SelectSeq(sorted, LAMBDA r : r.round > row.round)
    IN  before \o <<row>> \o after

\* sorted(history, key=lambda k: k['round'])
RECURSIVE SortedByRound(_)
SortedByRound(history) ==
    IF history = <<>> THEN <<>>
    ELSE InsertByRound(SortedByRound(SubSeq(history, 1, Len(history) - 1)),
                       history[Len(history)])

\* Api.get_player_summary: the decoded body
get_player_summary(player_id, resp) ==
    IF resp.kind = "error" THEN Result(NoObject, 1, 0, "raise", Raised("URLError"))
    ELSE Result(NoObject, 1, 0, "return", resp.data)

\* Api.get_player_form
get_player_form(player_id, resp) ==
    LET player_summary == get_player_summary(player_id, resp)
    IN  IF player_summary.out = "raise" THEN player_summary
        ELSE IF player_summary.ret.history = NoArg
        THEN [player_summary EXCEPT !.out = "raise", !.ret = Raised("KeyError")]
        ELSE LET sorted_history == SortedByRound(ValueOf(player_summary.ret.history))
                 form == [i \in DOMAIN sorted_history |-> sorted_history[i].total_points]
             IN  [player_summary EXCEPT !.ret = PyList(form)]

PlayerIds == {1, 2}

\* the record of one of these calls
SummaryCall(op, player_id, resp, r) ==
    [op |-> op, args |-> player_id, body |-> resp,
     fetches |-> r.fetches, writes |-> r.writes, out |-> r.out, ret |-> r.ret]

InitForm ==
    /\ day = 2
    /\ \E today \in {<<>>, <<Alisson, Kane>>} :
           players = insert_to_db(insert_to_db(<<>>, FormatAll(<<Alisson>>).docs, 1),
                                  FormatAll(today).docs, 2)
    /\ teams = insert_to_db(<<>>, <<RawTeam(1, 14)>>, 2)
    /\ fixtures = <<>>
    /\ last = NoCall
    /\ reqs = [w \in Workers |-> Idle]
    /\ budget = 0
    /\ put = [c \in Collections |-> {}]
    /\ obj = NoObject

GetPlayerSummary ==
    \E player_id \in PlayerIds, resp \in SummaryResponses :
        /\ last' = SummaryCall("get_player_summary", player_id, resp,
                               get_player_summary(player_id, resp))
        /\ UNCHANGED <<day, players, teams, fixtures, reqs, budget, put, obj>>

GetPlayerForm ==
    \E player_id \in PlayerIds, resp \in SummaryResponses :
        /\ last' = SummaryCall("get_player_form", player_id, resp,
                               get_player_form(player_id, resp))
        /\ UNCHANGED <<day, players, teams, fixtures, reqs, budget, put, obj>>

NextForm == GetPlayerSummary \/ GetPlayerForm

SpecForm == InitForm /\ [][NextForm]_vars

(***************************************************************************)
(* SpecView: the route /ajax/player_stats (src/app.py), which calls        *)
(* get_players, get_fixtures and get_teams of src/api.py in turn.          *)
(***************************************************************************)
\* what request.args give get_players: the defaults (minPrice 0, maxPrice 15,
\* minsPlayed 0, no position, maxOwnership 100), or minPrice=10.1
ViewDefaults ==
    [min_price |-> Given(0), max_price |-> Given(150), min_minutes_played |-> Given(0),
     positions |-> Given(<<>>), max_ownership |-> Given(100)]

\* the bodies upstream answers the route's calls with
ViewBootstrapResponses ==
    {[kind |-> "error", data |-> NoBody], [kind |-> "object", data |-> NoBody]}
    \cup {[kind |-> "object", data |-> [elements |-> Given(e), teams |-> Given(t)]] :
              e \in {<<Kane, Alisson>>},
              t \in {<<RawTeam(1, 14), RawTeam(2, 6)>>,
                     <<RawTeam(1, 14), RawTeam(2, 6), RawTeam(3, 8)>>}}
ViewFixturesResponses ==
    {[kind |-> "error", data |-> <<>>]}
    \cup {[kind |-> "array", data |-> f] :
              f \in {<<>>, <<RawFixture(1, 1, 2), RawFixture(2, 2, 1)>>,
                     <<RawFixture(1, 1, 2), RawFixture(2, 3, 1), RawFixture(3, 2, 3)>>}}

\* the names of the model in the order of their unidecode() keys
NamesInOrder ==
    <<"Alisson Becker", "Free Agent", "Harry Kane", "Mohamed Salah", "New Manager",
      "Roberto Firmino", "Third Keeper", "Virgil van Dijk">>
NameRank(name) == CHOOSE i \in DOMAIN NamesInOrder : NamesInOrder[i] = name

\* sorted(players, key=lambda k: unidecode(k['name']))
InsertByName(sorted, player) ==
    LET before == SelectSeq(sorted, LAMBDA p : NameRank(p.name) <= NameRank(player.name))
        after  == SelectSeq(sorted, LAMBDA p : NameRank(p.name) > NameRank(player.name))
    IN  before \o <<player>> \o after
RECURSIVE SortedByName(_)
SortedByName(list) ==
    IF list = <<>> THEN <<>>
    ELSE InsertByName(SortedByName(SubSeq(list, 1, Len(list) - 1)), list[Len(list)])

\* team_fixtures after the loop over fixtures: its keys, and the list under a
\* key (each fixture appended under its home and under its away team)
TeamFixturesKeys(list) ==
    {list[i].team_h : i \in DOMAIN list} \cup {list[i].team_a : i \in DOMAIN list}
RECURSIVE TeamFixtures(_, _)
TeamFixtures(list, id) ==
    IF list = <<>> THEN <<>>
    ELSE LET fixture == Head(list)
         IN  (IF fixture.team_h = id THEN <<fixture>> ELSE <<>>)
             \o (IF fixture.team_a = id THEN <<fixture>> ELSE <<>>)
             \o TeamFixtures(Tail(list), id)

\* the outcome of the route: the collections afterwards, what get_players
\* reported, the HTTP status and, with 200, the "data" of the JSON body
Response(store, got, status, data, err) ==
    [store |-> store, got |-> got, status |-> status, data |-> data, err |-> err]

\* get_ajax_player_stats, the two loops: each team gets its fixtures and
\* each player its team (fx and t are what get_fixtures and get_teams gave)
JoinTeams(s3, got, sorted_players, fx, t) ==
    IF \E i \in DOMAIN t.ret.items : t.ret.items[i].id \notin TeamFixturesKeys(fx.ret.items)
    THEN Response(s3, got, 500, <<>>, "KeyError")
    ELSE
    LET team(i) == [fixtures |-> TeamFixtures(fx.ret.items, t.ret.items[i].id)]
                   @@ t.ret.items[i]
        \* teams_formatted[code]: the team assigned last under the code
        formatted(code) ==
            team(CHOOSE i \in DOMAIN t.ret.items :
                     /\ t.ret.items[i].code = code
                     /\ \A j \in DOMAIN t.ret.items :
                            t.ret.items[j].code = code => j <= i)
        codes == {t.ret.items[i].code : i \in DOMAIN t.ret.items}
    IN  IF \E i \in DOMAIN sorted_players : sorted_players[i].team_code \notin codes
        THEN Response(s3, got, 500, <<>>, "KeyError")
        ELSE Response(s3, got, 200,
                      [i \in DOMAIN sorted_players |->
                           [team |-> formatted(sorted_players[i].team_code)]
                           @@ sorted_players[i]],
                      "")

\* get_ajax_player_stats, from "teams = api.get_teams()" on
FetchTeamsOfView(s1, today, got, sorted_players, fx, rt) ==
    LET s2 == [s1 EXCEPT !.fixtures = fx.coll]
    IN
    IF fx.out = "raise" THEN Response(s2, got, 500, <<>>, fx.ret.tag)
    ELSE IF fx.ret.tag # "list" THEN Response(s2, got, 500, <<>>, "TypeError")
    ELSE CHOOSE response \in
             { LET s3 == [s2 EXCEPT !.teams = t.coll]
               IN  IF t.out = "raise" THEN Response(s3, got, 500, <<>>, t.ret.tag)
                   ELSE IF t.ret.tag # "list" THEN Response(s3, got, 500, <<>>, "TypeError")
                   ELSE JoinTeams(s3, got, sorted_players, fx, t) :
                   t \in {get_teams(s1.teams, today, rt)} } : TRUE

\* get_ajax_player_stats, from "players = sorted(...)" on (p is what
\* get_players gave)
SortPlayersOfView(store, today, p, rf, rt) ==
    LET s1  == [store EXCEPT !.players = p.coll]
        got == [out |-> p.out, ret |-> p.ret]
    IN
    IF p.out = "raise" THEN Response(s1, got, 500, <<>>, p.ret.tag)
    ELSE IF p.ret = None THEN Response(s1, got, 200, <<>>, "")
    ELSE IF p.ret.tag # "list" THEN Response(s1, got, 500, <<>>, "TypeError")
    ELSE CHOOSE response \in
             { FetchTeamsOfView(s1, today, got, sorted_players, fx, rt) :
                   sorted_players \in {SortedByName(p.ret.items)},
                   fx \in {get_fixtures(store.fixtures, today, rf)} } : TRUE

\* get_ajax_player_stats (an exception that leaves the route is a 500)
get_ajax_player_stats(store, today, f, rp, rf, rt) ==
    CHOOSE response \in
        { SortPlayersOfView(store, today, p, rf, rt) :
              p \in {get_players(store.players, today, f, rp)} } : TRUE

InitView ==
    /\ day = 1
    /\ players = <<>>
    /\ teams = <<>>
    /\ fixtures = <<>>
    /\ last = NoCall
    /\ reqs = [w \in Workers |-> Idle]
    /\ budget = 0
    /\ put = [c \in Collections |-> {}]
    /\ obj = NoObject

GetAjaxPlayerStats ==
    \E f \in {ViewDefaults, [ViewDefaults EXCEPT !.min_price = Given(101)]},
       rp \in ViewBootstrapResponses,
       rf \in ViewFixturesResponses, rt \in ViewBootstrapResponses :
        \E r \in {get_ajax_player_stats([players |-> players, teams |-> teams,
                                          fixtures |-> fixtures], day, f, rp, rf, rt)} :
            /\ players' = r.store.players
            /\ teams' = r.store.teams
            /\ fixtures' = r.store.fixtures
            /\ last' = [op |-> "get_ajax_player_stats", args |-> f, got |-> r.got,
                        status |-> r.status, data |-> r.data, err |-> r.err]
            /\ UNCHANGED <<day, reqs, budget, put, obj>>

NextView == GetAjaxPlayerStats \/ NextDay

SpecView == InitView /\ [][NextView]_vars

(***************************************************************************)
(* SpecGpg: Player.calculate_gpg (src/fpl/models.py) on a Player whose     *)
(* goals and games fields are set.                                         *)
(***************************************************************************)
MaxGoals == 12
MaxGames == 10

\* a calculate_gpg that cuts the quotient off after two decimals
calculate_gpg_truncating(goals, games) ==
    IF games = 0 THEN Result(NoObject, 0, 0, "raise", Raised("ZeroDivisionError"))
    ELSE Result(NoObject, 0, 0, "return", Hundredths((100 * goals) \div games))

\* Player.calculate_gpg: float("{0:.2f}".format(self.goals / self.games)); the
\* string is held as its number of hundredths, which float() reads back
calculate_gpg(goals, games) ==
    IF games = 0 THEN Result(NoObject, 0, 0, "raise", Raised("ZeroDivisionError"))
    ELSE Result(NoObject, 0, 0, "return",
                Hundredths(RoundHundredths(FDivInt(FromInt(goals), games))))

InitGpg ==
    /\ day = 1
    /\ players = <<>>
    /\ teams = <<>>
    /\ fixtures = <<>>
    /\ last = NoCall
    /\ reqs = [w \in Workers |-> Idle]
    /\ budget = 0
    /\ put = [c \in Collections |-> {}]
    /\ obj = NoObject

\* player = Player(games=..., goals=...)
NewPlayer ==
    /\ \E goals \in 0..MaxGoals, games \in 0..MaxGames :
           obj' = [goals |-> goals, games |-> games]
    /\ last' = NoCall
    /\ UNCHANGED <<day, players, teams, fixtures, reqs, budget, put>>

\* player.calculate_gpg()
CalculateGpg ==
    /\ obj # NoObject
    /\ LET r == calculate_gpg(obj.goals, obj.games)
       IN  last' = [op |-> "calculate_gpg", out |-> r.out, ret |-> r.ret]
    /\ UNCHANGED <<day, players, teams, fixtures, reqs, budget, put, obj>>

NextGpg == NewPlayer \/ CalculateGpg

SpecGpg == InitGpg /\ [][NextGpg]_vars

(***************************************************************************)
(* The properties.                                                         *)
(***************************************************************************)
IsGet(op) == op \in {"get_players", "superfpl_get_players", "get_teams", "get_fixtures"}

UpstreamFailure == {"error", "malformed"}

Items(ret) == {ret.items[i] : i \in DOMAIN ret.items}

\* C1: for get_players (no filter), get_teams and get_fixtures, a call made
\* when today's partition of its collection is populated (an earlier call of
\* the day fetched and stored it: nothing else stamps a document with today)
\* issues no remote fetch and returns the cached documents.
C1_CachedDayServesWithoutFetch ==
    (IsGet(last.op) /\ last.pre > 0 /\ last.args = NoFilter) =>
        /\ last.fetches = 0
        /\ last.out = "return"
        /\ last.ret = PyList(FindToday(Coll(CollectionOf(last.op)), day))

\* C2: a get_players call that fetched a body of N >= 1 elements and stored
\* them made one fetch, stored N documents for today, and returns the result
\* of the read that follows the insert, not None.
C2_MissReturnsTheReRead ==
    (CollectionOf(last.op) = "players" /\ last.upstream = "ok" /\ last.writes > 0) =>
        /\ last.fetches = 1
        /\ last.writes = last.n
        /\ Len(FindToday(players, day)) >= last.n
        /\ last.out = "return"
        /\ last.ret = get_players_from_db(players, day, last.args)
        /\ last.ret # None

\* C3: a get_players call that follows, on the same day and with the same
\* filter, the call that fetched and filled the empty partition of today
\* returns what that call returned.
C3_SecondCallReturnsTheSame ==
    (last.op = "get_players" /\ last.prior.what = "populate") =>
        /\ last.out = last.prior.out
        /\ last.ret = last.prior.ret

C5_FailureReturnsNoData ==
    (IsGet(last.op) /\ last.upstream \in UpstreamFailure) =>
        (last.out = "return" /\ last.ret = False)

\* C6: in every state reached by any interleaving of the insert loops (and
\* of midnight), no collection holds two documents under one key, the
\* document held under a key is the one saved last under it, and as long as
\* every insert ran on the first day a collection holds one document per id.
C6_OneRecordPerKey ==
    \A c \in Collections :
        /\ \A i, j \in DOMAIN Coll(c) : Coll(c)[i]._id = Coll(c)[j]._id => i = j
        /\ \A i, j \in DOMAIN Coll(c) :
               (day = 1 /\ Coll(c)[i].id = Coll(c)[j].id) => i = j
        /\ {Coll(c)[i] : i \in DOMAIN Coll(c)} = put[c]

\* two requests have run their insert loops over players on one day; the
\* second overwrote the document of player 1 the first had saved
C6_OverwrittenByLastWriter ==
    /\ \A w \in Workers : reqs[w].pc = "reread" /\ reqs[w].c = "players"
    /\ day = 1
    /\ Len(players) = 2
    /\ \E i \in DOMAIN players : players[i].id = 1 /\ players[i].minutes = AlissonB.minutes

\* no document of a day before today is missing from coll2 or changed in it
EarlierDaysKept(coll, coll2, today) ==
    \A i \in DOMAIN coll :
        (\E d \in 1..(today - 1) : coll[i].date_generated = get_date(d)) =>
            \E j \in DOMAIN coll2 : coll2[j] = coll[i]

\* the three reads, and the call just made, return only documents stamped today
ReadsOnlyToday ==
    /\ \A f \in Filters :
           \A d \in Items(get_players_from_db(players, day, f)) : d.date_generated = get_date(day)
    /\ \A d \in Items(get_teams_from_db(teams, day)) : d.date_generated = get_date(day)
    /\ \A d \in Items(get_fixtures_from_db(fixtures, day)) : d.date_generated = get_date(day)
    /\ IsGet(last.op) => \A d \in Items(last.ret) : d.date_generated = get_date(day)

\* a get_* call made now on a collection holding nothing of today fetches
MissIsFetched ==
    /\ FindToday(players, day) = <<>> =>
           \A f \in Filters, resp \in BootstrapResponses :
               get_players(players, day, f, resp).fetches = 1
    /\ FindToday(teams, day) = <<>> =>
           \A resp \in TeamsResponses : get_teams(teams, day, resp).fetches = 1
    /\ FindToday(fixtures, day) = <<>> =>
           \A resp \in FixturesResponses : get_fixtures(fixtures, day, resp).fetches = 1

\* C7: day partitioning.  No step removes or changes a document of an
\* earlier day; the three reads return only documents stamped today; when the
\* day advances no collection holds a document of the new day, and a get_*
\* call on a collection holding nothing of today fetches: so the first call
\* of a day is a miss and fetches, whatever earlier days hold.
C7_DayPartitioning ==
    /\ [](ReadsOnlyToday /\ MissIsFetched)
    /\ [][ /\ EarlierDaysKept(players, players', day')
           /\ EarlierDaysKept(teams, teams', day')
           /\ EarlierDaysKept(fixtures, fixtures', day')
           /\ day' # day =>
                  /\ FindToday(players', day') = <<>>
                  /\ FindToday(teams', day') = <<>>
                  /\ FindToday(fixtures', day') = <<>>
         ]_vars

\* C8: the filtered read tells "no player stored today" from "players stored
\* today, none matching", and get_players fetches only in the first case.
C8_EmptyResultIsNotAMiss ==
    /\ \A f \in Filters :
           FindToday(players, day) # <<>> => get_players_from_db(players, day, f) # False
    /\ (last.op = "get_players" /\ last.pre > 0) => last.fetches = 0

\* whether document d is a player of today that filter f asks for
Wanted(d, f) ==
    /\ d.date_generated = get_date(day)
    /\ f.min_price # NoArg => ValueOf(f.min_price) <= RoundTenths(d.now_cost)
    /\ f.max_price # NoArg => RoundTenths(d.now_cost) <= ValueOf(f.max_price)
    /\ f.min_minutes_played # NoArg => d.minutes >= ValueOf(f.min_minutes_played)
    /\ (f.positions # NoArg /\ ValueOf(f.positions) # <<>>) =>
           \E i \in DOMAIN ValueOf(f.positions) : d.position = upper(ValueOf(f.positions)[i])
    /\ f.max_ownership # NoArg => d.selected_by_percent <= ValueOf(f.max_ownership)

CostsToday == {RoundTenths(FindToday(players, day)[i].now_cost) : i \in DOMAIN FindToday(players, day)}

\* C10: get_value_range returns min, min + 0.1, ..., max of today's now_cost
\* values: (max - min) * 10 + 1 entries in ascending order, the first min and
\* the last max, each the price point rounded to one decimal.
C10_ValueRangeCoversMinToMax ==
    (last.op = "get_value_range" /\ last.out = "return") =>
        LET lo == CHOOSE c \in CostsToday : \A o \in CostsToday : c <= o
            hi == CHOOSE c \in CostsToday : \A o \in CostsToday : o <= c
        IN  /\ Len(last.ret.items) = (hi - lo) + 1
            /\ \A i \in DOMAIN last.ret.items : last.ret.items[i] = Tenths(lo + i - 1)

\* C11: a get_value_range call issues no remote fetch, saves nothing and
\* leaves every collection as it was; when no player is stored for today it
\* ends with the error of the empty aggregation (IndexError), and otherwise
\* it returns a list.
C11_ValueRangeOnlyReads ==
    [][ last'.op = "get_value_range" =>
            /\ UNCHANGED <<day, players, teams, fixtures>>
            /\ last'.fetches = 0
            /\ last'.writes = 0
            /\ FindToday(players, day) = <<>> =>
                   (last'.out = "raise" /\ last'.ret = Raised("IndexError"))
            /\ FindToday(players, day) # <<>> =>
                   (last'.out = "return" /\ last'.ret.tag = "list")
      ]_vars

\* the range was asked for on a day with no player stored, while players of
\* the day before are in the store: the call raised
C11_NoDataToday ==
    /\ last.op = "get_value_range"
    /\ day = 2
    /\ players # <<>>
    /\ FindToday(players, day) = <<>>
    /\ last.out = "raise"

\* the fields format_player derives
DerivedFields ==
    {"name", "now_cost", "goal_involvements", "position", "bps_per_min",
     "clean_sheets_per_90", "goals_conc_per_90", "goals_scored_per_90",
     "assists_per_90", "creativity_per_min", "threat_per_min", "influence_per_min",
     "points_per_min", "points_per_90", "points_per_mil", "saves_per_90"}

\* C12: after a format_player call that raised nothing, the object passed is
\* as it was before the call, and when the same object had been passed before,
\* the derived fields returned are those returned then.
C12_EnricherLeavesItsArgument ==
    (last.op = "format_player" /\ last.err = "") =>
        /\ obj = last.arg
        /\ last.again =>
               \A f \in DerivedFields : last.ret[f] = last.earlier[f]

\* the per-minute and per-90 fields of prepare_analysis_fields
PerMinuteFields ==
    {"bps_per_min", "creativity_per_min", "threat_per_min", "influence_per_min",
     "points_per_min"}
Per90Fields ==
    {"clean_sheets_per_90", "goals_conc_per_90", "goals_scored_per_90",
     "assists_per_90", "points_per_90", "saves_per_90"}

\* C13: a format_player call on a player with minutes = 0 (whose position code
\* is known and whose converted price is not 0.0) raises nothing, and every
\* per-minute and per-90 field of the record it returns is 0.
C13_ZeroMinutesGiveZero ==
    ( /\ last.op = "format_player"
      /\ last.arg.minutes = 0
      /\ last.arg.element_type \in DOMAIN POSITION_LOOKUP
      /\ last.ret.now_cost # FromInt(0) ) =>
        /\ last.err = ""
        /\ \A f \in PerMinuteFields \cup Per90Fields : last.ret[f] = 0
C13_ZeroMinutesEnriched ==
    /\ last.op = "format_player" /\ ~last.again
    /\ last.arg.minutes = 0 /\ last.err = ""
    /\ last.ret.position = "FWD" /\ last.ret.points_per_90 = 0

\* what format_player raises on an element that cannot be enriched
BadElement(e) == e.element_type \notin DOMAIN POSITION_LOOKUP \/ e.now_cost = 0
EnrichmentError(e) ==
    IF e.element_type \notin DOMAIN POSITION_LOOKUP THEN "KeyError"
    ELSE "ZeroDivisionError"

\* the elements of the body the last call fetched
FetchedElements == ValueOf(ValueOf(last.body).data.elements)

\* the last call was a get_players on an empty partition of today whose body
\* had an element that cannot be enriched
EnrichmentFails ==
    /\ last.op \in {"get_players", "superfpl_get_players"}
    /\ last.pre = 0
    /\ last.body # NoArg
    /\ ValueOf(last.body).kind = "object"
    /\ ValueOf(last.body).data.elements # NoArg
    /\ \E i \in DOMAIN FetchedElements : BadElement(FetchedElements[i])

FirstBad ==
    CHOOSE i \in DOMAIN FetchedElements :
        /\ BadElement(FetchedElements[i])
        /\ \A j \in 1..(i - 1) : ~BadElement(FetchedElements[j])

\* C14: a get_players call that finds today's partition empty and fetches a
\* body with an element of unknown position code or of price 0 raises that
\* element's error (KeyError, ZeroDivisionError), saves no document and leaves
\* today's partition empty; the get_players call after it (same day) again
\* finds nothing stored and fetches.
C14_EnrichmentErrorLeavesNoRecord ==
    /\ [](EnrichmentFails =>
            /\ last.out = "raise"
            /\ last.ret = Raised(EnrichmentError(FetchedElements[FirstBad]))
            /\ last.writes = 0
            /\ FindToday(players, day) = <<>>)
    /\ [][ (EnrichmentFails /\ last'.op = "get_players" /\ day' = day) =>
               (last'.pre = 0 /\ last'.fetches = 1) ]_vars
C14_FailedTwice ==
    /\ EnrichmentFails
    /\ FirstBad = 2
    /\ last.ret = Raised("ZeroDivisionError")
    /\ last.prior.what = "raised"
    /\ players = <<>>

\* the orders in which n rows can come out
Orders(n) == {p \in [1..n -> 1..n] : \A i, j \in 1..n : i # j => p[i] # p[j]}

\* form is the total_points of history taken in an order that is ascending by
\* round and keeps rows of equal round in their upstream order
IsFormOf(form, history) ==
    /\ Len(form) = Len(history)
    /\ \E p \in Orders(Len(history)) :
           /\ \A i \in DOMAIN form : form[i] = history[p[i]].total_points
           /\ \A i, j \in DOMAIN form :
                  i < j => \/ history[p[i]].round < history[p[j]].round
                           \/ /\ history[p[i]].round = history[p[j]].round
                              /\ p[i] < p[j]

\* C15: a get_player_summary or get_player_form call issues exactly one
\* remote fetch, saves nothing and changes no collection, whatever the store
\* holds; when the body has a history, get_player_form returns its
\* total_points in ascending order of round, rows of equal round in upstream
\* order, one entry per row.
C15_SummaryAndFormBypassTheCache ==
    /\ [](last.op \in {"get_player_summary", "get_player_form"} =>
            /\ last.fetches = 1
            /\ last.writes = 0
            /\ (last.op = "get_player_summary" /\ last.body.kind = "object") =>
                   (last.out = "return" /\ last.ret = last.body.data)
            /\ (last.op = "get_player_form" /\ last.body.kind = "object"
                    /\ last.body.data.history # NoArg) =>
                   /\ last.out = "return"
                   /\ last.ret.tag = "list"
                   /\ IsFormOf(last.ret.items, ValueOf(last.body.data.history)))
    /\ [][ last'.op \in {"get_player_summary", "get_player_form"} =>
               UNCHANGED <<day, players, teams, fixtures>> ]_vars
C15_FormOfEqualRounds ==
    /\ last.op = "get_player_form" /\ last.out = "return"
    /\ FindToday(players, day) # <<>>
    /\ last.ret.items = <<6, 0, 2>>
    /\ ValueOf(last.body.data.history) =
           <<HistoryRow(2, 2), HistoryRow(1, 6), HistoryRow(1, 0)>>

\* C16: when the get_players call of a /ajax/player_stats request returns a
\* no-data value (None, or the False of a malformed body), the response is
\* 200 with {"data": []}.
C16_NoDataRendersEmpty ==
    ( /\ last.op = "get_ajax_player_stats"
      /\ last.got.out = "return"
      /\ last.got.ret \in {None, False} ) =>
        (last.status = 200 /\ last.data = <<>>)

\* the fixtures of today in which the team plays
FixturesOf(id) ==
    SelectSeq(FindToday(fixtures, day), LAMBDA f : f.team_h = id \/ f.team_a = id)

\* C17: when a /ajax/player_stats request got a list of players and today's
\* teams and fixtures are stored, the response is 200 and every player in it
\* carries the team of its team_code, whose fixtures are exactly today's
\* fixtures with the team at home or away, each once.
C17_PlayersCarryTeamAndFixtures ==
    ( /\ last.op = "get_ajax_player_stats"
      /\ last.got.out = "return"
      /\ last.got.ret.tag = "list"
      /\ FindToday(fixtures, day) # <<>>
      /\ FindToday(teams, day) # <<>> ) =>
        /\ last.status = 200
        /\ Len(last.data) = Len(last.got.ret.items)
        /\ \A i \in DOMAIN last.data :
               /\ last.data[i].team.code = last.data[i].team_code
               /\ last.data[i].team.fixtures = FixturesOf(last.data[i].team.id)

\* |a|
Abs(a) == IF a < 0 THEN 0 - a ELSE a

\* C18: for goals >= 0 and games > 0 calculate_gpg returns the float of a
\* two-decimal number h/100 with h >= 0 that lies within half a hundredth of
\* goals / games (0.5 for 5 goals in 10 games), and so a value >= 0.
C18_GpgIsTheRoundedRatio ==
    (last.op = "calculate_gpg" /\ obj.goals >= 0 /\ obj.games > 0) =>
        /\ last.out = "return"
        /\ FLe(FromInt(0), last.ret)
        /\ \E h \in 0..(100 * obj.goals) :
               /\ 2 * Abs(h * obj.games - 100 * obj.goals) <= obj.games
               /\ last.ret = Hundredths(h)
        /\ (obj.goals = 5 /\ obj.games = 10) => FAdd(last.ret, last.ret) = FromInt(1)
C18_FiveInTen ==
    /\ last.op = "calculate_gpg" /\ obj = [goals |-> 5, games |-> 10]
    /\ last.out = "return" /\ last.ret = Hundredths(50)

\* whether a call with these arguments is served from today's partition of
\* its own collection
ServedFromStore(op, partition, args) ==
    IF op = "get_players" THEN get_players_from_db(partition, day, args) # False
    ELSE partition # <<>>

\* C19: a get_players call changes no collection but players, a get_teams
\* call none but teams, a get_fixtures call none but fixtures; and a call
\* issues no fetch exactly when today's partition of its own collection (as
\* the call found it) serves its arguments, whatever the other two hold.
C19_KindsAreIndependent ==
    [][ /\ last'.op = "get_players" =>
              /\ UNCHANGED <<teams, fixtures>>
              /\ last'.fetches = 0 <=>
                     ServedFromStore("get_players", FindToday(players, day), last'.args)
        /\ last'.op = "get_teams" =>
              /\ UNCHANGED <<players, fixtures>>
              /\ last'.fetches = 0 <=>
                     ServedFromStore("get_teams", FindToday(teams, day), last'.args)
        /\ last'.op = "get_fixtures" =>
              /\ UNCHANGED <<players, teams>>
              /\ last'.fetches = 0 <=>
                     ServedFromStore("get_fixtures", FindToday(fixtures, day), last'.args)
      ]_vars
C19_TeamsCachedPlayersMissing ==
    /\ last.op = "get_teams" /\ last.fetches = 0 /\ last.out = "return"
    /\ FindToday(teams, day) # <<>>
    /\ FindToday(players, day) = <<>>
    /\ FindToday(fixtures, day) # <<>>

\* C20: in every collection every stored document has
\* _id = str(id) + "_" + date_generated.
C20_KeyAgreesWithDayStamp ==
    \A coll \in {players, teams, fixtures} :
        \A i \in DOMAIN coll :
            coll[i]._id = ToString(coll[i].id) \o "_" \o coll[i].date_generated

\* record d was saved from element e of a fetched snapshot: e with its two
\* stamps
SavedFrom(d, e) == \A k \in DOMAIN e : k \in DOMAIN d /\ d[k] = e[k]

\* a result holds a record for every element of each snapshot that it holds
\* a record of
WholeSnapshot(result, c) ==
    result # False =>
        \A snapshot \in Fetched(c) :
            (\E i \in DOMAIN snapshot, j \in DOMAIN result.items :
                 SavedFrom(result.items[j], snapshot[i]))
            => \A i \in DOMAIN snapshot :
                   \E j \in DOMAIN result.items : result.items[j].id = snapshot[i].id

\* the step is the first read of a call on c, which returns what it found
ReturnsHit(c) ==
    /\ budget' = budget - 1
    /\ reqs' = reqs
    /\ MissSignal(FindToday(Coll(c), day)) # False

\* C21: whatever a call of get_players (unfiltered), get_teams or
\* get_fixtures returns other than the miss signal, from its first read or
\* from its read after the insert loop, holds a record for every element of
\* the snapshot its records were saved from, also while another request is
\* between two saves of its insert loop.
C21_NoPartialSnapshotServed ==
    [][ /\ \A c \in Collections :
               ReturnsHit(c) => WholeSnapshot(MissSignal(FindToday(Coll(c), day)), c)
        /\ \A w \in Workers :
               (reqs[w].pc = "reread" /\ reqs'[w].pc = "idle")
               => WholeSnapshot(MissSignal(FindToday(Coll(reqs[w].c), day)), reqs[w].c)
      ]_vars
====
